---- MODULE Spec2Model ----
(***************************************************************************)
(* Model of app.py: the RASCAL report parsers (TXT, CSV, XML), the         *)
(* synthetic generator, the dose-to-action decision engine and the         *)
(* Streamlit script that drives them through session state.                *)
(*                                                                         *)
(* Floats are integers in units of 1e-4 (12.5 mSv is 125000); NaN is a     *)
(* cell of its own kind.  A DataFrame is a sequence of column names and a  *)
(* sequence of rows, each row a sequence of cells in column order.         *)
(***************************************************************************)
EXTENDS Integers, Sequences, FiniteSets, TLC

VARIABLES
    core,      \* the pure pipeline under test: input, parse outcome, engine outcome
    heap,      \* DataFrame objects by reference (pandas frames are mutable objects)
    session,   \* st.session_state
    widgets,   \* widget values the browser sends with a script run
    pc,        \* position of the Streamlit script run
    run        \* what the current script run has done so far

vars == <<core, heap, session, widgets, pc, run>>

----------------------------------------------------------------------------
(* Cells: every value held in a DataFrame.                                 *)

Str(s) == [k |-> "str", s |-> s, n |-> 0]
Num(n) == [k |-> "num", s |-> "", n |-> n]
NaN == [k |-> "nan", s |-> "", n |-> 0]
None == [k |-> "none", s |-> "", n |-> 0]

----------------------------------------------------------------------------
(* DataFrames.                                                             *)

\* pd.DataFrame() / pd.DataFrame([]): no columns and no rows
EmptyDF == [cols |-> <<>>, rows |-> <<>>]

\* DataFrame.empty: true when any axis has length 0
IsEmpty(df) == Len(df.cols) = 0 \/ Len(df.rows) = 0

\* pd.DataFrame(data) for a list of dicts that all have the keys `keys`
FromDicts(keys, dicts) ==
    IF dicts = <<>> THEN EmptyDF ELSE [cols |-> keys, rows |-> dicts]

HasCol(df, name) == \E c \in DOMAIN df.cols : df.cols[c] = name

ColIndex(df, name) == CHOOSE c \in DOMAIN df.cols : df.cols[c] = name

\* df[name]
Column(df, name) == [i \in DOMAIN df.rows |-> df.rows[i][ColIndex(df, name)]]

\* df[name] = values (one value per row): replaces the column or appends it
SetColumn(df, name, values) ==
    IF HasCol(df, name)
    THEN [df EXCEPT !.rows =
             [i \in DOMAIN df.rows |->
                 [df.rows[i] EXCEPT ![ColIndex(df, name)] = values[i]]]]
    ELSE [cols |-> Append(df.cols, name),
          rows |-> [i \in DOMAIN df.rows |-> Append(df.rows[i], values[i])]]

\* the scalar written to the first row only (df.loc[0, name] = v)
SetScalar_firstrow(df, name, v) ==
    SetColumn(df, name, [i \in DOMAIN df.rows |-> IF i = 1 THEN v ELSE None])

\* df[name] = scalar: the scalar is broadcast to every row
SetScalar(df, name, v) == SetColumn(df, name, [i \in DOMAIN df.rows |-> v])

----------------------------------------------------------------------------
(* Decision engine.                                                        *)

EVACUATE_THRESHOLD == 100000
SHELTER_THRESHOLD == 50000
MONITOR_THRESHOLD == 10000

\* dose >= threshold on Python floats: false whenever dose is NaN
GE(dose, threshold) == dose.k = "num" /\ dose.n >= threshold

get_action_strict(dose) ==
    IF dose.k = "num" /\ dose.n > EVACUATE_THRESHOLD THEN Str("Evacuate")
    ELSE IF dose.k = "num" /\ dose.n > SHELTER_THRESHOLD THEN Str("Shelter-in-Place")
    ELSE IF dose.k = "num" /\ dose.n > MONITOR_THRESHOLD THEN Str("Monitor & Advise")
    ELSE Str("No Immediate Action")

get_action(dose) ==
    IF GE(dose, EVACUATE_THRESHOLD) THEN Str("Evacuate")
    ELSE IF GE(dose, SHELTER_THRESHOLD) THEN Str("Shelter-in-Place")
    ELSE IF GE(dose, MONITOR_THRESHOLD) THEN Str("Monitor & Advise")
    ELSE Str("No Immediate Action")

get_color(action) ==
    IF action = Str("Evacuate") THEN Str("red")
    ELSE IF action = Str("Shelter-in-Place") THEN Str("orange")
    ELSE IF action = Str("Monitor & Advise") THEN Str("yellow")
    ELSE Str("green")

\* df['Dose (mSv)'].apply(get_action)
ApplyGetAction(series) == [i \in DOMAIN series |-> get_action(series[i])]

\* df['Recommended Action'].apply(get_color)
ApplyGetColor(series) == [i \in DOMAIN series |-> get_color(series[i])]

\* the engine keeping only the rows that need an action
AddActionColumns_filtering(df) ==
    LET keep == SelectSeq(df.rows,
                    LAMBDA r : get_action(r[ColIndex(df, "Dose (mSv)")]) # Str("No Immediate Action"))
        kept == [df EXCEPT !.rows = keep]
        withAction == SetColumn(kept, "Recommended Action",
                                ApplyGetAction(Column(kept, "Dose (mSv)")))
    IN  SetColumn(withAction, "Action Color",
                  ApplyGetColor(Column(withAction, "Recommended Action")))

\* The two column assignments of the engine, on a frame value
AddActionColumns(df) ==
    LET withAction == SetColumn(df, "Recommended Action",
                                ApplyGetAction(Column(df, "Dose (mSv)")))
    IN  SetColumn(withAction, "Action Color",
                  ApplyGetColor(Column(withAction, "Recommended Action")))

\* get_action compares the dose with a float: every dose must be a float
\* and the column must exist, or the call raises (KeyError / TypeError)
EngineRaises(df) ==
    /\ ~IsEmpty(df)
    /\ \/ ~HasCol(df, "Dose (mSv)")
       \/ \E i \in DOMAIN df.rows : Column(df, "Dose (mSv)")[i].k \notin {"num", "nan"}

\* recommend_protective_actions(df), df a reference into heap h: the frame
\* is changed in place and the same reference is returned
recommend_protective_actions(h, df) ==
    IF IsEmpty(h[df]) THEN [heap |-> h, ret |-> df, raised |-> FALSE]
    ELSE IF EngineRaises(h[df]) THEN [heap |-> h, ret |-> df, raised |-> TRUE]
    ELSE [heap |-> [h EXCEPT ![df] = AddActionColumns(h[df])],
          ret |-> df, raised |-> FALSE]

----------------------------------------------------------------------------
(* Strings.  File text is held split into its fields; the string           *)
(* operations the parsers use are given by their values on the tokens the  *)
(* inputs are built from.                                                  *)

\* str.strip()
StripTable ==
    [t \in {" Zone B ", "Zone B ", " Zone B"} |-> "Zone B"] @@
    [t \in {" 10.0 ", "10.0 ", " 10.0"} |-> "10.0"] @@
    [t \in {" Zone"} |-> "Zone"] @@
    [t \in {" Dose (mSv)"} |-> "Dose (mSv)"]

Strip(s) == IF s \in DOMAIN StripTable THEN StripTable[s] ELSE s

\* str.lstrip() / str.rstrip(): what content.strip() does to the first and
\* to the last field of the file
LStrip(s) ==
    CASE s = " Zone B " -> "Zone B "
      [] s = " 10.0 " -> "10.0 "
      [] s \in {" Zone B", " 10.0", " Zone"} -> Strip(s)
      [] OTHER -> s

RStrip(s) ==
    CASE s = " Zone B " -> " Zone B"
      [] s = " 10.0 " -> " 10.0"
      [] s \in {"Zone B ", "10.0 "} -> Strip(s)
      [] OTHER -> s

\* The strings float() accepts (after its own whitespace trimming), with
\* their values in units of 1e-4
FloatTable ==
    [t \in {"12.5"} |-> Num(125000)] @@
    [t \in {"10.0"} |-> Num(100000)] @@
    [t \in {"5.0"} |-> Num(50000)] @@
    [t \in {"3.0"} |-> Num(30000)] @@
    [t \in {"0.99"} |-> Num(9900)] @@
    [t \in {"-33.586"} |-> Num(-335860)] @@
    [t \in {"18.402"} |-> Num(184020)] @@
    [t \in {"nan"} |-> NaN]

\* float(x) for x a str cell or None: the value, or the exception raised
PyFloat(x) ==
    IF x.k = "none" THEN [exc |-> "TypeError", val |-> None]
    ELSE IF Strip(x.s) \in DOMAIN FloatTable
         THEN [exc |-> "", val |-> FloatTable[Strip(x.s)]]
         ELSE [exc |-> "ValueError", val |-> None]

\* h_line.split("Incident:")[1].strip() for the lines that contain the key
IncidentAfter ==
    [t \in {"Incident: Test1"} |-> "Test1"] @@
    [t \in {"Incident: Test2"} |-> "Test2"] @@
    [t \in {"Incident: Test1 Timestamp: 2024-01-01 00:00:00"} |->
        "Test1 Timestamp: 2024-01-01 00:00:00"]

\* h_line.split("Timestamp:")[1].strip() for the lines that contain the key
TimestampAfter ==
    [t \in {"Timestamp: 2024-01-01 00:00:00",
            "Incident: Test1 Timestamp: 2024-01-01 00:00:00"} |->
        "2024-01-01 00:00:00"]

\* ':' in s
ContainsColon(s) == s \in (DOMAIN IncidentAfter) \cup (DOMAIN TimestampAfter)

----------------------------------------------------------------------------
(* TXT parser.  A file is a sequence of lines, a line the sequence of its  *)
(* ';'-separated fields (so ';' in line iff it has two fields or more).    *)
(* A field that holds a header key is the last field of its line.          *)

RowKeys == <<"Zone", "Dose (mSv)", "Radionuclide", "Radius (km)", "Latitude", "Longitude">>

\* file_content.strip().split('\n')
TxtLines(content) ==
    IF content = <<>> THEN << <<"">> >>
    ELSE LET n == Len(content)
             a == [content EXCEPT ![1] = [@ EXCEPT ![1] = LStrip(@)]]
         IN  [a EXCEPT ![n] = [@ EXCEPT ![Len(@)] = RStrip(@)]]

LineHas(line, keyed) == \E f \in DOMAIN line : line[f] \in DOMAIN keyed

LineAfter(line, keyed) == keyed[line[CHOOSE f \in DOMAIN line : line[f] \in DOMAIN keyed]]

IsHeaderLine(line) == \E f \in DOMAIN line : ContainsColon(line[f])

\* ';' in line and not line.startswith('Zone;')
IsDataLine(line) == Len(line) >= 2 /\ line[1] # "Zone"

\* the loop over header_lines: the last line that sets a value wins, and a
\* line that holds "Incident:" is never looked at for "Timestamp:"
RECURSIVE ScanHeaders(_, _)
ScanHeaders(hlines, acc) ==
    IF hlines = <<>> THEN acc
    ELSE LET h == Head(hlines)
             nxt == IF LineHas(h, IncidentAfter)
                    THEN [acc EXCEPT !.incident = LineAfter(h, IncidentAfter)]
                    ELSE IF LineHas(h, TimestampAfter)
                    THEN [acc EXCEPT !.timestamp = LineAfter(h, TimestampAfter)]
                    ELSE acc
         IN  ScanHeaders(Tail(hlines), nxt)

\* the row built without converting Latitude and Longitude
TxtRow_coords_unchecked(parts) ==
    LET dose == PyFloat(Str(Strip(parts[2])))
        radius == PyFloat(Str(Strip(parts[4])))
    IN  IF dose.exc # "" \/ radius.exc # ""
        THEN [exc |-> "ValueError", row |-> <<>>]
        ELSE [exc |-> "",
              row |-> <<Str(Strip(parts[1])), dose.val, Str(Strip(parts[3])),
                        radius.val, Str(Strip(parts[5])), Str(Strip(parts[6]))>>]

\* the dict built from the six parts of a line, or the ValueError
TxtRow(parts) ==
    LET dose == PyFloat(Str(Strip(parts[2])))
        radius == PyFloat(Str(Strip(parts[4])))
        lat == PyFloat(Str(Strip(parts[5])))
        lon == PyFloat(Str(Strip(parts[6])))
    IN  IF dose.exc # "" \/ radius.exc # "" \/ lat.exc # "" \/ lon.exc # ""
        THEN [exc |-> "ValueError", row |-> <<>>]
        ELSE [exc |-> "",
              row |-> <<Str(Strip(parts[1])), dose.val, Str(Strip(parts[3])),
                        radius.val, lat.val, lon.val>>]

\* the loop over data_lines: data and the st.warning calls, in order
RECURSIVE TxtLoop(_, _)
TxtLoop(dlines, acc) ==
    IF dlines = <<>> THEN acc
    ELSE LET line == Head(dlines)
             r == TxtRow(line)
             nxt == IF Len(line) = 6
                    THEN IF r.exc = ""
                         THEN [acc EXCEPT !.data = Append(@, r.row)]
                         ELSE [acc EXCEPT !.warnings =
                                  Append(@, [msg |-> "malformed", about |-> line])]
                    ELSE [acc EXCEPT !.warnings =
                             Append(@, [msg |-> "columns", about |-> line])]
         IN  TxtLoop(Tail(dlines), nxt)

parse_txt(content) ==
    LET lines == TxtLines(content)
        header_lines == SelectSeq(lines, IsHeaderLine)
        data_lines == SelectSeq(lines, IsDataLine)
        hdr == ScanHeaders(header_lines, [incident |-> "", timestamp |-> ""])
        loop == TxtLoop(data_lines, [data |-> <<>>, warnings |-> <<>>])
        df == FromDicts(RowKeys, loop.data)
    IN  [exc |-> "",
         df |-> SetScalar(SetScalar(df, "Incident", Str(hdr.incident)),
                          "Timestamp", Str(hdr.timestamp)),
         warnings |-> loop.warnings]

----------------------------------------------------------------------------
(* XML parser.  A document is well formed or not; a well-formed one is     *)
(* the elements below its root in document order, each with its tag, its   *)
(* depth below the root (1 for a child of the root) and its attributes     *)
(* (None for an attribute the element does not have).                      *)

NoAttrs ==
    [name |-> None, timestamp |-> None, dose_mSv |-> None, radionuclide |-> None,
     radius_km |-> None, latitude |-> None, longitude |-> None]

\* root.find('Incident'): the first child of the root with that tag
FindIncident(elems) ==
    LET hits == {i \in DOMAIN elems : elems[i].tag = "Incident" /\ elems[i].depth = 1}
    IN  IF hits = {} THEN [found |-> FALSE, attrs |-> NoAttrs]
        ELSE [found |-> TRUE,
              attrs |-> elems[CHOOSE i \in hits : \A j \in hits : i <= j].attrs]

IsZoneTag(e) == e.tag = "Zone"

\* root.findall('.//Zone'): every Zone below the root, in document order
FindAllZones(elems) == SelectSeq(elems, IsZoneTag)

\* the dict built from a Zone element, or the exception float() raises
XmlRow(a) ==
    LET dose == PyFloat(a.dose_mSv)
        radius == PyFloat(a.radius_km)
        lat == PyFloat(a.latitude)
        lon == PyFloat(a.longitude)
        bad == SelectSeq(<<dose, radius, lat, lon>>, LAMBDA r : r.exc # "")
    IN  IF bad # <<>> THEN [exc |-> bad[1].exc, row |-> <<>>]
        ELSE [exc |-> "",
              row |-> <<a.name, dose.val, a.radionuclide, radius.val, lat.val, lon.val>>]

RECURSIVE XmlLoop(_, _)
XmlLoop(zones, acc) ==
    IF zones = <<>> THEN acc
    ELSE LET zone_elem == Head(zones)
             r == XmlRow(zone_elem.attrs)
             nxt == IF r.exc = ""
                    THEN [acc EXCEPT !.data = Append(@, r.row)]
                    ELSE [acc EXCEPT !.warnings =
                             Append(@, [msg |-> r.exc, about |-> zone_elem])]
         IN  XmlLoop(Tail(zones), nxt)

parse_xml(doc) ==
    IF ~doc.wellformed
    THEN [exc |-> "ParseError", df |-> EmptyDF, warnings |-> <<>>]
    ELSE LET incident_elem == FindIncident(doc.elems)
             incident_name == IF incident_elem.found THEN incident_elem.attrs.name
                              ELSE Str("N/A")
             timestamp == IF incident_elem.found THEN incident_elem.attrs.timestamp
                          ELSE Str("N/A")
             loop == XmlLoop(FindAllZones(doc.elems), [data |-> <<>>, warnings |-> <<>>])
             df == FromDicts(RowKeys, loop.data)
         IN  [exc |-> "",
              df |-> SetScalar(SetScalar(df, "Incident", incident_name),
                               "Timestamp", timestamp),
              warnings |-> loop.warnings]

----------------------------------------------------------------------------
(* CSV parser.  A CSV blob either cannot be read by pandas or decodes to   *)
(* a header row (the column names as written) and typed data rows.         *)

\* pd.read_csv(io.StringIO(file_content))
read_csv(content) ==
    IF ~content.readable THEN [exc |-> "ParserError", df |-> EmptyDF]
    ELSE [exc |-> "", df |-> [cols |-> content.header, rows |-> content.rows]]

parse_csv(content) ==
    LET r == read_csv(content)
    IN  IF r.exc # "" THEN [exc |-> r.exc, df |-> EmptyDF, warnings |-> <<>>]
        ELSE [exc |-> "",
              df |-> [r.df EXCEPT !.cols = [c \in DOMAIN r.df.cols |-> Strip(r.df.cols[c])]],
              warnings |-> <<>>]

----------------------------------------------------------------------------
(* Synthetic generator.  rnd holds the values the random module returns.   *)

GenKeys == <<"Zone", "Dose (mSv)", "Radionuclide", "Radius (km)", "Incident",
             "Timestamp", "Latitude", "Longitude">>

radionuclides == <<"I-131", "Cs-137", "Sr-90", "Co-60", "Pu-239">>

\* f"Zone {chr(65 + i)}" for i = 0, 1, 2, ...
ZoneName(i) == <<"Zone A", "Zone B", "Zone C", "Zone D", "Zone E", "Zone F">>[i + 1]

generate_random_rascal_data(num_zones, rnd) ==
    FromDicts(GenKeys,
        [z \in 1..num_zones |->
            <<Str(ZoneName(z - 1)), Num(rnd.dose[z]), Str(radionuclides[rnd.nuclide[z]]),
              Num(rnd.radius[z]), Str(rnd.incident), Str(rnd.timestamp),
              Num(-335860 + rnd.lat[z]), Num(184020 + rnd.lon[z])>>])

----------------------------------------------------------------------------
(* Inputs of the pure pipeline: the files and frames the parsers, the      *)
(* generator and the engine are run on.                                    *)

MaxLines == 3
MaxElems == 3
MaxCsvRows == 2
MaxRows == 2
MaxZones == 3

SeqsUpTo(S, n) == UNION {[1..m -> S] : m \in 0..n}

ColumnHeaderLine ==
    <<"Zone", "Dose (mSv)", "Radionuclide", "Radius (km)", "Latitude", "Longitude">>

TxtLineSet ==
    { <<"Incident: Test1">>,
      <<"Incident: Test2">>,
      <<"Timestamp: 2024-01-01 00:00:00">>,
      <<"Incident: Test1 Timestamp: 2024-01-01 00:00:00">>,
      <<"free text">>,
      ColumnHeaderLine,
      [ColumnHeaderLine EXCEPT ![1] = " Zone"],
      <<"Zone A", "12.5", "I-131", "5.0", "-33.586", "18.402">>,
      <<" Zone B ", "3.0", "Cs-137", " 10.0 ", "-33.586", "18.402">>,
      <<"Zone C", "nan", "I-131", "5.0", "-33.586", "18.402">>,
      <<"Zone A", "12.5", "I-131", "5.0", "-33.586">>,
      <<"Zone A", "12.5", "I-131", "5.0", "-33.586", "18.402", "extra">>,
      <<"Zone D", "abc", "I-131", "5.0", "-33.586", "18.402">>,
      <<"Zone E", "0.99", "I-131", "5.0", "-33.586", "abc">> }

TxtInputs == SeqsUpTo(TxtLineSet, MaxLines)

ZoneAttrs(name, dose, nuclide, radius, lat, lon) ==
    [NoAttrs EXCEPT !.name = name, !.dose_mSv = dose, !.radionuclide = nuclide,
                    !.radius_km = radius, !.latitude = lat, !.longitude = lon]

GoodZone == ZoneAttrs(Str("Zone A"), Str("12.5"), Str("I-131"), Str("5.0"),
                      Str("-33.586"), Str("18.402"))

XmlElemSet ==
    { [tag |-> "Incident", depth |-> 1,
       attrs |-> [NoAttrs EXCEPT !.name = Str("Test1"), !.timestamp = Str("T1")]],
      [tag |-> "Incident", depth |-> 1,
       attrs |-> [NoAttrs EXCEPT !.timestamp = Str("T1")]],
      [tag |-> "Incident", depth |-> 2,
       attrs |-> [NoAttrs EXCEPT !.name = Str("Test2"), !.timestamp = Str("T2")]],
      [tag |-> "Zones", depth |-> 1, attrs |-> NoAttrs],
      [tag |-> "Zone", depth |-> 1, attrs |-> GoodZone],
      [tag |-> "Zone", depth |-> 2,
       attrs |-> ZoneAttrs(Str(" Zone B "), Str("3.0"), Str("Cs-137"), Str(" 10.0 "),
                           Str("-33.586"), Str("18.402"))],
      [tag |-> "Zone", depth |-> 1, attrs |-> [GoodZone EXCEPT !.dose_mSv = Str("abc")]],
      [tag |-> "Zone", depth |-> 1, attrs |-> [GoodZone EXCEPT !.radius_km = None]],
      [tag |-> "Zone", depth |-> 1, attrs |-> [GoodZone EXCEPT !.name = None]],
      [tag |-> "Zone", depth |-> 1, attrs |-> [GoodZone EXCEPT !.radionuclide = None]] }

\* a child of the root comes first; text that is not well-formed XML has no elements
XmlInputs ==
    { [wellformed |-> TRUE, elems |-> es] :
        es \in {e \in SeqsUpTo(XmlElemSet, MaxElems) : e = <<>> \/ e[1].depth = 1} }
    \cup { [wellformed |-> FALSE, elems |-> <<>>] }

CsvFullHeader ==
    <<"Zone", " Dose (mSv)", "Radionuclide", "Radius (km)", "Latitude", "Longitude",
      "Incident", "Timestamp">>

CsvRow(zone, dose, incident, timestamp) ==
    <<Str(zone), Num(dose), Str("I-131"), Num(50000), Num(-335860), Num(184020),
      Str(incident), Str(timestamp)>>

CsvRowSet ==
    { CsvRow("Zone A", 125000, "Test1", "T1"),
      CsvRow("Zone B", 30000, "Test1", "T1"),
      CsvRow("Zone C", 9900, "Test2", "T2") }

CsvInputs ==
    { [readable |-> TRUE, header |-> CsvFullHeader, rows |-> rs] :
        rs \in SeqsUpTo(CsvRowSet, MaxCsvRows) }
    \cup { [readable |-> TRUE, header |-> SubSeq(CsvFullHeader, 1, 6),
            rows |-> [i \in DOMAIN rs |-> SubSeq(rs[i], 1, 6)]] :
        rs \in SeqsUpTo(CsvRowSet, MaxCsvRows) }
    \cup { [readable |-> TRUE, header |-> SubSeq(CsvFullHeader, 3, 8),
            rows |-> [i \in DOMAIN rs |-> SubSeq(rs[i], 3, 8)]] :
        rs \in SeqsUpTo(CsvRowSet, MaxCsvRows) }
    \cup { [readable |-> FALSE, header |-> <<>>, rows |-> <<>>] }

DoseSet ==
    { NaN, Num(-10000), Num(0), Num(9900), Num(9999), Num(10000), Num(49999),
      Num(50000), Num(99999), Num(100000), Num(250000) }

FrameRow(dose) ==
    <<Str("Zone A"), dose, Str("I-131"), Num(50000), Num(-335860), Num(184020),
      Str("Test1"), Str("T1")>>

FrameInputs ==
    { FromDicts(RowKeys \o <<"Incident", "Timestamp">>, [i \in DOMAIN ds |-> FrameRow(ds[i])]) :
        ds \in SeqsUpTo(DoseSet, MaxRows) }

\* values random.uniform / random.choice / random.randint can return
GenDoses == {5000, 250000}
GenNuclides == {1, 5}
GenRadii == {10000}
GenLatOffsets == {-200}
GenLonOffsets == {200}
GenIncidents == {"Random Incident 100", "Random Incident 999"}
GenTimestamps == {"2026-01-01 00:00:00"}

RandomDraws(n) ==
    [dose : [1..n -> GenDoses], nuclide : [1..n -> GenNuclides],
     radius : [1..n -> GenRadii], lat : [1..n -> GenLatOffsets],
     lon : [1..n -> GenLonOffsets], incident : GenIncidents,
     timestamp : GenTimestamps]

----------------------------------------------------------------------------
(* The pure pipeline: one input, the parser or generator for it, then the  *)
(* decision engine on the frame that came out.                             *)

NoOutcome == [exc |-> "", df |-> EmptyDF, warnings |-> <<>>]
NoEngine == [called |-> FALSE, before |-> EmptyDF, arg |-> "df", ret |-> "df", raised |-> FALSE]

EmptyHeap == [r \in {"stored", "df"} |-> EmptyDF]

\* st.session_state before the first run: no key is set
SessionInit == [keys |-> {}, authenticated |-> FALSE, username |-> None]

\* what the browser holds: the page the last run drew and the widget values
WidgetsInit == [page |-> "none", submit |-> FALSE, username |-> "", password |-> "",
                logout |-> FALSE, generate |-> FALSE, uploaded_file |-> ""]

RunInit == [gate |-> "none", login |-> "none", ops |-> {}, ended |-> "none",
            prev |-> EmptyDF, eng |-> NoEngine]

CoreIdle == [phase |-> "off", kind |-> "none", input |-> <<>>, out |-> NoOutcome,
             eng |-> NoEngine]

CoreStart(kind, input) ==
    [phase |-> "input", kind |-> kind, input |-> input, out |-> NoOutcome, eng |-> NoEngine]

CoreInit ==
    /\ \/ \E c \in TxtInputs : core = CoreStart("txt", c)
       \/ \E c \in CsvInputs : core = CoreStart("csv", c)
       \/ \E c \in XmlInputs : core = CoreStart("xml", c)
       \/ \E f \in FrameInputs : core = CoreStart("frame", f)
       \/ \E n \in 0..MaxZones : core = CoreStart("gen", n)
    /\ heap = EmptyHeap
    /\ session = SessionInit
    /\ widgets = WidgetsInit
    /\ pc = "off"
    /\ run = RunInit

\* the parser returned r (or raised): its frame is the object "df"
CoreParsed(r) ==
    /\ core' = [core EXCEPT !.phase = IF r.exc = "" THEN "parsed" ELSE "raised", !.out = r]
    /\ heap' = [heap EXCEPT !["df"] = r.df]
    /\ UNCHANGED <<session, widgets, pc, run>>

CoreParseTxt ==
    /\ core.phase = "input" /\ core.kind = "txt"
    /\ CoreParsed(parse_txt(core.input))

CoreParseCsv ==
    /\ core.phase = "input" /\ core.kind = "csv"
    /\ CoreParsed(parse_csv(core.input))

CoreParseXml ==
    /\ core.phase = "input" /\ core.kind = "xml"
    /\ CoreParsed(parse_xml(core.input))

CoreGenerate ==
    /\ core.phase = "input" /\ core.kind = "gen"
    /\ \E rnd \in RandomDraws(core.input) :
          CoreParsed([NoOutcome EXCEPT !.df = generate_random_rascal_data(core.input, rnd)])

\* a canonical frame handed to the engine as it is
CoreFrame ==
    /\ core.phase = "input" /\ core.kind = "frame"
    /\ CoreParsed([NoOutcome EXCEPT !.df = core.input])

CoreRecommend ==
    /\ core.phase = "parsed"
    /\ LET r == recommend_protective_actions(heap, "df")
       IN  /\ heap' = r.heap
           /\ core' = [core EXCEPT !.phase = "done",
                                   !.eng = [called |-> TRUE, before |-> heap["df"],
                                            arg |-> "df", ret |-> r.ret,
                                            raised |-> r.raised]]
    /\ UNCHANGED <<session, widgets, pc, run>>

CoreNext ==
    \/ CoreParseTxt
    \/ CoreParseCsv
    \/ CoreParseXml
    \/ CoreGenerate
    \/ CoreFrame
    \/ CoreRecommend

SpecCore == CoreInit /\ [][CoreNext]_vars

----------------------------------------------------------------------------
(* The Streamlit script.  A script run goes gate -> sidebar -> init_pd ->  *)
(* source -> display; st.stop(), st.rerun() and an uncaught exception end  *)
(* it early.  Between runs the browser shows the page the last run drew,   *)
(* and a widget event starts the next run.                                 *)

CORRECT_USERNAME == "manager"
CORRECT_PASSWORD == "password123"

Usernames == {CORRECT_USERNAME, "guest"}
Passwords == {CORRECT_PASSWORD, "letmein"}

DefaultNumZones == 3

\* the files a user can pick in st.file_uploader: what name.endswith() sees,
\* whether the bytes decode as UTF-8, and the text
Files ==
    [n \in {"good.txt"} |->
        [ext |-> "txt", decodable |-> TRUE,
         content |-> << <<"Incident: Test1">>,
                        <<"Zone A", "12.5", "I-131", "5.0", "-33.586", "18.402">> >>]] @@
    [n \in {"norecords.txt"} |->
        [ext |-> "txt", decodable |-> TRUE,
         content |-> << <<"Incident: Test2">>,
                        <<"Zone D", "abc", "I-131", "5.0", "-33.586", "18.402">> >>]] @@
    [n \in {"good.xml"} |->
        [ext |-> "xml", decodable |-> TRUE,
         content |-> [wellformed |-> TRUE,
                      elems |-> << [tag |-> "Zone", depth |-> 1, attrs |-> GoodZone] >>]]] @@
    [n \in {"broken.xml"} |->
        [ext |-> "xml", decodable |-> TRUE,
         content |-> [wellformed |-> FALSE, elems |-> <<>>]]] @@
    [n \in {"good.csv"} |->
        [ext |-> "csv", decodable |-> TRUE,
         content |-> [readable |-> TRUE, header |-> CsvFullHeader,
                      rows |-> << CsvRow("Zone B", 30000, "Test1", "T1") >>]]] @@
    [n \in {"nometa.csv"} |->
        [ext |-> "csv", decodable |-> TRUE,
         content |-> [readable |-> TRUE, header |-> SubSeq(CsvFullHeader, 1, 6),
                      rows |-> << SubSeq(CsvRow("Zone B", 30000, "Test1", "T1"), 1, 6) >>]]] @@
    [n \in {"broken.csv"} |->
        [ext |-> "csv", decodable |-> TRUE,
         content |-> [readable |-> FALSE, header |-> <<>>, rows |-> <<>>]]] @@
    [n \in {"latin1.csv"} |->
        [ext |-> "csv", decodable |-> FALSE,
         content |-> [readable |-> FALSE, header |-> <<>>, rows |-> <<>>]]] @@
    [n \in {"REPORT.TXT"} |->
        [ext |-> "TXT", decodable |-> TRUE, content |-> <<>>]]

\* username == CORRECT_USERNAME or password == CORRECT_PASSWORD
CredentialsOk_either(username, password) ==
    username = CORRECT_USERNAME \/ password = CORRECT_PASSWORD

\* username == CORRECT_USERNAME and password == CORRECT_PASSWORD
CredentialsOk(username, password) ==
    username = CORRECT_USERNAME /\ password = CORRECT_PASSWORD

\* the frame itself handed on instead of a copy
DataFrameCopy_alias(h, src) == [heap |-> h, ref |-> src]

\* st.session_state['parsed_data'].copy(): a new object with the same content
DataFrameCopy(h, src) == [heap |-> [h EXCEPT !["df"] = h[src]], ref |-> "df"]

\* DataFrame.equals
Equals(a, b) == a = b

\* any parsed set that differs from the stored one is new data, an empty one too
IsNewData_any(parsed, stored) == ~Equals(parsed, stored)

\* not current_parsed_data.empty and
\* not current_parsed_data.equals(st.session_state['parsed_data'])
IsNewData(parsed, stored) == ~IsEmpty(parsed) /\ ~Equals(parsed, stored)

\* the error branch leaving the stored record set as it is
OnParseError_keep(h) == h

\* the except branch: st.session_state['parsed_data'] = pd.DataFrame()
OnParseError(h) == [h EXCEPT !["stored"] = EmptyDF]

\* the if/elif chain over uploaded_file.name.endswith(...)
ParseUploaded(file) ==
    IF file.ext = "txt" THEN parse_txt(file.content)
    ELSE IF file.ext = "csv" THEN parse_csv(file.content)
    ELSE IF file.ext = "xml" THEN parse_xml(file.content)
    ELSE NoOutcome

\* the columns the dashboard reads from a non-empty stored record set
DisplayColumns == RowKeys \o <<"Incident", "Timestamp">>

DisplayRaises(df) ==
    \/ \E c \in DOMAIN DisplayColumns : ~HasCol(df, DisplayColumns[c])
    \/ EngineRaises(df)

Authenticated == "authenticated" \in session.keys /\ session.authenticated

ButtonsReleased(w) == [w EXCEPT !.submit = FALSE, !.logout = FALSE, !.generate = FALSE]

\* the run is over and the browser shows `page`; widgets the run did not
\* draw lose their value
EndRun(page, how) ==
    /\ pc' = "idle"
    /\ widgets' = IF page = "login"
                  THEN [ButtonsReleased(widgets) EXCEPT !.page = page, !.uploaded_file = ""]
                  ELSE [ButtonsReleased(widgets) EXCEPT !.page = page]
    /\ run' = [run EXCEPT !.ended = how]

Init ==
    /\ core = CoreIdle
    /\ heap = EmptyHeap
    /\ session = SessionInit
    /\ widgets = WidgetsInit
    /\ pc = "idle"
    /\ run = RunInit

StartRun(w) ==
    /\ pc = "idle"
    /\ pc' = "gate"
    /\ widgets' = w
    /\ run' = RunInit
    /\ UNCHANGED <<core, heap, session>>

UserOpen == widgets.page = "none" /\ StartRun(widgets)

UserSubmitLogin ==
    /\ widgets.page = "login"
    /\ \E u \in Usernames, p \in Passwords :
          StartRun([widgets EXCEPT !.submit = TRUE, !.username = u, !.password = p])

UserLogout ==
    /\ widgets.page = "dashboard"
    /\ StartRun([widgets EXCEPT !.logout = TRUE])

UserGenerate ==
    /\ widgets.page = "dashboard" /\ widgets.uploaded_file = ""
    /\ StartRun([widgets EXCEPT !.generate = TRUE])

UserUpload ==
    /\ widgets.page = "dashboard"
    /\ \E f \in DOMAIN Files : StartRun([widgets EXCEPT !.uploaded_file = f])

UserRemoveFile ==
    /\ widgets.page = "dashboard" /\ widgets.uploaded_file # ""
    /\ StartRun([widgets EXCEPT !.uploaded_file = ""])

\* any other widget of the dashboard (a radio button, a slider, ...)
UserInteract == widgets.page = "dashboard" /\ StartRun(widgets)

\* st.rerun(): the run stops and the script starts again with the buttons released
Rerun ==
    /\ pc = "rerun"
    /\ pc' = "gate"
    /\ widgets' = ButtonsReleased(widgets)
    /\ run' = RunInit
    /\ UNCHANGED <<core, heap, session>>

\* lines 164-165
AuthSetup(s) ==
    IF "authenticated" \in s.keys THEN s
    ELSE [s EXCEPT !.keys = @ \cup {"authenticated"}, !.authenticated = FALSE]

GateLoginOk ==
    /\ pc = "gate" /\ ~Authenticated
    /\ widgets.submit /\ CredentialsOk(widgets.username, widgets.password)
    /\ session' = [AuthSetup(session) EXCEPT !.authenticated = TRUE,
                                             !.username = Str(widgets.username),
                                             !.keys = @ \cup {"username"}]
    /\ run' = [run EXCEPT !.gate = "login", !.login = "ok", !.ended = "rerun"]
    /\ pc' = "rerun"
    /\ UNCHANGED <<core, heap, widgets>>

GateLoginFailed ==
    /\ pc = "gate" /\ ~Authenticated
    /\ widgets.submit /\ ~CredentialsOk(widgets.username, widgets.password)
    /\ session' = AuthSetup(session)
    /\ pc' = "idle"
    /\ widgets' = [ButtonsReleased(widgets) EXCEPT !.page = "login", !.uploaded_file = ""]
    /\ run' = [run EXCEPT !.gate = "login", !.login = "failed", !.ended = "stop"]
    /\ UNCHANGED <<core, heap>>

GateStop ==
    /\ pc = "gate" /\ ~Authenticated /\ ~widgets.submit
    /\ session' = AuthSetup(session)
    /\ pc' = "idle"
    /\ widgets' = [ButtonsReleased(widgets) EXCEPT !.page = "login", !.uploaded_file = ""]
    /\ run' = [run EXCEPT !.gate = "login", !.ended = "stop"]
    /\ UNCHANGED <<core, heap>>

GatePass ==
    /\ pc = "gate" /\ Authenticated
    /\ pc' = "sidebar"
    /\ run' = [run EXCEPT !.gate = "pass"]
    /\ UNCHANGED <<core, heap, session, widgets>>

SidebarLogout ==
    /\ pc = "sidebar" /\ widgets.logout
    /\ session' = [session EXCEPT !.authenticated = FALSE, !.username = None,
                                  !.keys = @ \cup {"parsed_data", "username"}]
    /\ heap' = [heap EXCEPT !["stored"] = EmptyDF]
    /\ run' = [run EXCEPT !.ops = @ \cup {"write_parsed_data"}, !.ended = "rerun"]
    /\ pc' = "rerun"
    /\ UNCHANGED <<core, widgets>>

SidebarPass ==
    /\ pc = "sidebar" /\ ~widgets.logout
    /\ pc' = "init_pd"
    /\ UNCHANGED <<core, heap, session, widgets, run>>

InitParsedData ==
    /\ pc = "init_pd"
    /\ IF "parsed_data" \in session.keys
       THEN UNCHANGED <<heap, session, run>>
       ELSE /\ session' = [session EXCEPT !.keys = @ \cup {"parsed_data"}]
            /\ heap' = [heap EXCEPT !["stored"] = EmptyDF]
            /\ run' = [run EXCEPT !.ops = @ \cup {"write_parsed_data"}]
    /\ pc' = "source"
    /\ UNCHANGED <<core, widgets>>

SourceGenerate ==
    /\ pc = "source" /\ widgets.uploaded_file = "" /\ widgets.generate
    /\ \E rnd \in RandomDraws(DefaultNumZones) :
          heap' = [heap EXCEPT !["stored"] = generate_random_rascal_data(DefaultNumZones, rnd)]
    /\ run' = [run EXCEPT !.ops = @ \cup {"generate", "write_parsed_data"},
                          !.ended = "rerun"]
    /\ pc' = "rerun"
    /\ UNCHANGED <<core, session, widgets>>

SourceNone ==
    /\ pc = "source" /\ widgets.uploaded_file = "" /\ ~widgets.generate
    /\ pc' = "display"
    /\ UNCHANGED <<core, heap, session, widgets, run>>

\* uploaded_file.getvalue().decode("utf-8") raises outside the try block
SourceDecodeError ==
    /\ pc = "source" /\ widgets.uploaded_file # ""
    /\ ~Files[widgets.uploaded_file].decodable
    /\ EndRun("dashboard", "exception")
    /\ UNCHANGED <<core, heap, session>>

Uploaded == Files[widgets.uploaded_file]

SourceUploadError ==
    /\ pc = "source" /\ widgets.uploaded_file # "" /\ Uploaded.decodable
    /\ ParseUploaded(Uploaded).exc # ""
    /\ heap' = OnParseError(heap)
    /\ run' = [run EXCEPT !.ops = @ \cup {"parse", "write_parsed_data"},
                          !.ended = "error_rerun", !.prev = heap["stored"]]
    /\ pc' = "rerun"
    /\ UNCHANGED <<core, session, widgets>>

SourceUploadStore ==
    /\ pc = "source" /\ widgets.uploaded_file # "" /\ Uploaded.decodable
    /\ LET r == ParseUploaded(Uploaded)
       IN  /\ r.exc = ""
           /\ IsNewData(r.df, heap["stored"])
           /\ heap' = [heap EXCEPT !["stored"] = r.df]
    /\ run' = [run EXCEPT !.ops = @ \cup {"parse", "read_parsed_data", "write_parsed_data"},
                          !.ended = "rerun"]
    /\ pc' = "rerun"
    /\ UNCHANGED <<core, session, widgets>>

SourceUploadKeep ==
    /\ pc = "source" /\ widgets.uploaded_file # "" /\ Uploaded.decodable
    /\ LET r == ParseUploaded(Uploaded)
       IN  /\ r.exc = ""
           /\ ~IsNewData(r.df, heap["stored"])
           /\ run' = [run EXCEPT !.ops = @ \cup
                         (IF IsEmpty(r.df) THEN {"parse"} ELSE {"parse", "read_parsed_data"})]
    /\ pc' = "display"
    /\ UNCHANGED <<core, heap, session, widgets>>

DisplayEmpty ==
    /\ pc = "display" /\ IsEmpty(heap["stored"])
    /\ EndRun("dashboard", "end")
    /\ UNCHANGED <<core, heap, session>>

\* a column the dashboard reads is missing, or the engine raises
DisplayException ==
    /\ pc = "display" /\ ~IsEmpty(heap["stored"]) /\ DisplayRaises(heap["stored"])
    /\ EndRun("dashboard", "exception")
    /\ UNCHANGED <<core, heap, session>>

\* the two calls recommend_protective_actions(parsed_data.copy())
DisplayData ==
    /\ pc = "display" /\ ~IsEmpty(heap["stored"]) /\ ~DisplayRaises(heap["stored"])
    /\ LET c1 == DataFrameCopy(heap, "stored")
           r1 == recommend_protective_actions(c1.heap, c1.ref)
           c2 == DataFrameCopy(r1.heap, "stored")
           r2 == recommend_protective_actions(c2.heap, c2.ref)
       IN  /\ heap' = r2.heap
           /\ pc' = "idle"
           /\ widgets' = [ButtonsReleased(widgets) EXCEPT !.page = "dashboard"]
           /\ run' = [run EXCEPT !.ops = @ \cup {"read_parsed_data", "engine"},
                                 !.ended = "end",
                                 !.eng = [called |-> TRUE, before |-> heap["stored"],
                                          arg |-> c1.ref, ret |-> r1.ret,
                                          raised |-> r1.raised]]
    /\ UNCHANGED <<core, session>>

Next ==
    \/ UserOpen
    \/ UserSubmitLogin
    \/ UserLogout
    \/ UserGenerate
    \/ UserUpload
    \/ UserRemoveFile
    \/ UserInteract
    \/ Rerun
    \/ GateLoginOk
    \/ GateLoginFailed
    \/ GateStop
    \/ GatePass
    \/ SidebarLogout
    \/ SidebarPass
    \/ InitParsedData
    \/ SourceGenerate
    \/ SourceNone
    \/ SourceDecodeError
    \/ SourceUploadError
    \/ SourceUploadStore
    \/ SourceUploadKeep
    \/ DisplayEmpty
    \/ DisplayException
    \/ DisplayData

Spec == Init /\ [][Next]_vars

\* the steps the script runner takes on its own: once a run has started it
\* goes on to its end, and a rerun that st.rerun() requested is started
ScriptStep ==
    \/ Rerun
    \/ GateLoginOk
    \/ GateLoginFailed
    \/ GateStop
    \/ GatePass
    \/ SidebarLogout
    \/ SidebarPass
    \/ InitParsedData
    \/ SourceGenerate
    \/ SourceNone
    \/ SourceDecodeError
    \/ SourceUploadError
    \/ SourceUploadStore
    \/ SourceUploadKeep
    \/ DisplayEmpty
    \/ DisplayException
    \/ DisplayData

\* the script runner does not stall; the user may stop interacting at any time
SpecLive == Spec /\ WF_vars(ScriptStep)

----------------------------------------------------------------------------
(* Properties of the pure pipeline (checked under SpecCore).               *)

CoreParsedOk == core.phase \in {"parsed", "done"}
EngineRan == core.phase = "done" /\ ~core.eng.raised
EngineResult == heap[core.eng.ret]

C1_Pairs ==
    { <<Str("Evacuate"), Str("red")>>, <<Str("Shelter-in-Place"), Str("orange")>>,
      <<Str("Monitor & Advise"), Str("yellow")>>, <<Str("No Immediate Action"), Str("green")>> }

C1_Severity(action) ==
    CASE action = Str("Evacuate") -> 3
      [] action = Str("Shelter-in-Place") -> 2
      [] action = Str("Monitor & Advise") -> 1
      [] OTHER -> 0

\* C1: every record gets exactly one of the four (Action, Color) pairs; a
\* numeric dose d gets Evacuate/red when d >= 10.0, Shelter-in-Place/orange
\* when 5.0 <= d < 10.0, Monitor & Advise/yellow when 1.0 <= d < 5.0 and
\* No Immediate Action/green when d < 1.0; a lower dose never gets a
\* higher severity.
C1_DoseLadder ==
    (EngineRan /\ ~IsEmpty(core.eng.before)) =>
        LET dose == Column(core.eng.before, "Dose (mSv)")
            act == Column(EngineResult, "Recommended Action")
            color == Column(EngineResult, "Action Color")
        IN  /\ DOMAIN act = DOMAIN dose /\ DOMAIN color = DOMAIN dose
            /\ \A i \in DOMAIN dose : <<act[i], color[i]>> \in C1_Pairs
            /\ \A i \in DOMAIN dose : dose[i].k = "num" =>
                  /\ dose[i].n >= 100000 => <<act[i], color[i]>> = <<Str("Evacuate"), Str("red")>>
                  /\ (50000 <= dose[i].n /\ dose[i].n < 100000) =>
                        <<act[i], color[i]>> = <<Str("Shelter-in-Place"), Str("orange")>>
                  /\ (10000 <= dose[i].n /\ dose[i].n < 50000) =>
                        <<act[i], color[i]>> = <<Str("Monitor & Advise"), Str("yellow")>>
                  /\ dose[i].n < 10000 =>
                        <<act[i], color[i]>> = <<Str("No Immediate Action"), Str("green")>>
            /\ \A i, j \in DOMAIN dose :
                  (dose[i].k = "num" /\ dose[j].k = "num" /\ dose[i].n <= dose[j].n) =>
                      C1_Severity(act[i]) <= C1_Severity(act[j])

\* the engine has run on a frame holding the boundary dose 5.0 next to a
\* dose just below it, and the two got different actions
C1_Witness ==
    /\ EngineRan /\ core.kind = "frame"
    /\ Column(core.eng.before, "Dose (mSv)") = <<Num(50000), Num(49999)>>
    /\ Column(EngineResult, "Recommended Action") =
           <<Str("Shelter-in-Place"), Str("Monitor & Advise")>>

\* C2: the engine returns as many records as it is given and never raises
\* on numeric doses; an empty record set comes back as it is; the N
\* records of generate_random_rascal_data(N) give N records.
C2_SameCount ==
    /\ (core.phase = "done" /\ ~EngineRaises(core.eng.before)) =>
          /\ ~core.eng.raised
          /\ Len(EngineResult.rows) = Len(core.eng.before.rows)
          /\ IsEmpty(core.eng.before) => EngineResult = core.eng.before
    /\ (CoreParsedOk /\ core.kind = "gen") => Len(core.out.df.rows) = core.input
    /\ (core.phase = "done" /\ core.kind = "gen") =>
          ~core.eng.raised /\ Len(EngineResult.rows) = core.input

\* the generator made MaxZones records, one below 1.0 mSv, and the engine returned them all
C2_Witness ==
    /\ EngineRan /\ core.kind = "gen" /\ core.input = MaxZones
    /\ Len(EngineResult.rows) = MaxZones
    /\ \E i \in DOMAIN EngineResult.rows :
          Column(EngineResult, "Recommended Action")[i] = Str("No Immediate Action")


C4_SharedMeta(df) ==
    \/ Len(df.rows) = 0
    \/ /\ HasCol(df, "Incident") /\ HasCol(df, "Timestamp")
       /\ \A i, j \in DOMAIN df.rows :
             /\ Column(df, "Incident")[i] = Column(df, "Incident")[j]
             /\ Column(df, "Timestamp")[i] = Column(df, "Timestamp")[j]

\* C4 as claimed: the record set of each of the three parsers is empty or
\* has one Incident and one Timestamp value shared by all its records.
C4_AllParsersShareMeta ==
    (CoreParsedOk /\ core.kind \in {"txt", "csv", "xml"}) => C4_SharedMeta(core.out.df)

\* C4 amended: the record set of parse_txt and of parse_xml is empty or has
\* one Incident and one Timestamp value shared by all its records;
\* parse_csv returns the rows of the file as they are, Incident and
\* Timestamp cells included.
C4_TxtXmlShareMeta ==
    /\ (CoreParsedOk /\ core.kind \in {"txt", "xml"}) => C4_SharedMeta(core.out.df)
    /\ (CoreParsedOk /\ core.kind = "csv") => core.out.df.rows = core.input.rows

\* parse_txt returned two records, both with the Incident of the header line
C4_Witness ==
    /\ CoreParsedOk /\ core.kind = "txt"
    /\ Len(core.out.df.rows) = 2
    /\ Column(core.out.df, "Incident") = <<Str("Test2"), Str("Test2")>>

C5_IsNumber(field) == Strip(field) \in DOMAIN FloatTable

C5_WellFormed(line) ==
    Len(line) = 6 /\ \A f \in {2, 4, 5, 6} : C5_IsNumber(line[f])

C5_Malformed(line) == ~C5_WellFormed(line)

C5_IsData(line) == Len(line) >= 2 /\ line[1] # "Zone"

C5_DataLines == SelectSeq(TxtLines(core.input), C5_IsData)

\* C5: parse_txt never fails; it returns one record per data line that has
\* exactly 6 fields with numeric Dose, Radius, Latitude and Longitude, and
\* gives exactly one warning for each other data line, naming that line.
C5_TxtLineOutcome ==
    (core.kind = "txt" /\ core.phase # "input") =>
        /\ core.phase # "raised" /\ core.out.exc = ""
        /\ Len(core.out.df.rows) = Len(SelectSeq(C5_DataLines, C5_WellFormed))
        /\ [i \in DOMAIN core.out.warnings |-> core.out.warnings[i].about] =
               SelectSeq(C5_DataLines, C5_Malformed)

\* parse_txt met a good line, a 5-field line and a line with a non-numeric
\* Longitude: one record, two warnings
C5_Witness ==
    /\ CoreParsedOk /\ core.kind = "txt"
    /\ Len(C5_DataLines) = 3
    /\ Len(core.out.df.rows) = 1
    /\ {core.out.warnings[i].msg : i \in DOMAIN core.out.warnings} = {"columns", "malformed"}

C6_AllSix(a) ==
    /\ a.name # None /\ a.radionuclide # None
    /\ a.dose_mSv # None /\ a.radius_km # None /\ a.latitude # None /\ a.longitude # None

C6_WellFormedZone(e) ==
    /\ C6_AllSix(e.attrs)
    /\ \A x \in {e.attrs.dose_mSv, e.attrs.radius_km, e.attrs.latitude, e.attrs.longitude} :
          C5_IsNumber(x.s)

C6_MalformedZone(e) == ~C6_WellFormedZone(e)

C6_Zones == SelectSeq(core.input.elems, IsZoneTag)

\* C6: parse_xml returns one record per Zone element that has all six
\* attributes and numeric dose_mSv, radius_km, latitude and longitude, and
\* gives one warning (and no record) for every other Zone element.
C6_XmlZoneOutcome ==
    (CoreParsedOk /\ core.kind = "xml") =>
        /\ Len(core.out.df.rows) = Len(SelectSeq(C6_Zones, C6_WellFormedZone))
        /\ Len(core.out.warnings) = Len(SelectSeq(C6_Zones, C6_MalformedZone))


C7_AllRows(df, col, v) == \A i \in DOMAIN df.rows : Column(df, col)[i] = v

C7_TxtGiven(keyed, col) ==
    LET lines == TxtLines(core.input)
        having == {i \in DOMAIN lines : LineHas(lines[i], keyed)}
    IN  IF having = {} THEN C7_AllRows(core.out.df, col, Str(""))
        ELSE \E i \in having : C7_AllRows(core.out.df, col, Str(LineAfter(lines[i], keyed)))

C7_XmlGiven ==
    LET elems == core.input.elems
        having == {i \in DOMAIN elems : elems[i].tag = "Incident"}
    IN  IF having = {}
        THEN /\ C7_AllRows(core.out.df, "Incident", Str("N/A"))
             /\ C7_AllRows(core.out.df, "Timestamp", Str("N/A"))
        ELSE \E i \in having :
                /\ C7_AllRows(core.out.df, "Incident", elems[i].attrs.name)
                /\ C7_AllRows(core.out.df, "Timestamp", elems[i].attrs.timestamp)

\* C7: parse_txt attaches Incident = "" (Timestamp = "") to every record
\* when no line contains "Incident:" ("Timestamp:"), parse_xml attaches
\* "N/A" for both when there is no Incident element; when the key or the
\* element is present the value attached is the one the input gives for it.
C7_MetadataDefaults ==
    /\ (CoreParsedOk /\ core.kind = "txt") =>
          /\ HasCol(core.out.df, "Incident") /\ HasCol(core.out.df, "Timestamp")
          /\ C7_TxtGiven(IncidentAfter, "Incident")
          /\ C7_TxtGiven(TimestampAfter, "Timestamp")
    /\ (CoreParsedOk /\ core.kind = "xml") =>
          /\ HasCol(core.out.df, "Incident") /\ HasCol(core.out.df, "Timestamp")
          /\ C7_XmlGiven

C8_Six(rows) == [i \in DOMAIN rows |-> SubSeq(rows[i], 1, 6)]

C8_TxtOrder ==
    (CoreParsedOk /\ core.kind = "txt") =>
        LET valid == SelectSeq(C5_DataLines, C5_WellFormed)
        IN  C8_Six(core.out.df.rows) = [i \in DOMAIN valid |-> TxtRow(valid[i]).row]

C8_XmlOrder ==
    (CoreParsedOk /\ core.kind = "xml") =>
        LET valid == SelectSeq(C6_Zones, C6_WellFormedZone)
        IN  C8_Six(core.out.df.rows) = [i \in DOMAIN valid |-> XmlRow(valid[i].attrs).row]

C8_EngineOrder ==
    EngineRan =>
        [i \in DOMAIN EngineResult.rows |->
            SubSeq(EngineResult.rows[i], 1, Len(core.eng.before.cols))] = core.eng.before.rows

\* C8: the records parse_txt and parse_xml return are exactly the valid
\* data lines / Zone elements of the input, in input order, and the engine
\* returns the records in the order it received them.
C8_OrderPreserved == C8_TxtOrder /\ C8_XmlOrder /\ C8_EngineOrder

----------------------------------------------------------------------------
(* Properties of the Streamlit script (checked under Spec).                *)

C9_StructurallyBad(file) ==
    \/ file.ext = "xml" /\ ~file.content.wellformed
    \/ file.ext = "csv" /\ ~file.content.readable

\* C9: a file that is not well-formed XML or not readable CSV makes the
\* parser raise to the upload handler (it is not parsed with records
\* skipped), and once the handler has caught the failure the stored record
\* set is the empty frame, whatever was stored before.
C9_ParseFailureClearsStored ==
    /\ run.ended = "error_rerun" =>
          /\ heap["stored"] = EmptyDF
          /\ "parsed_data" \in session.keys
    /\ ("parse" \in run.ops /\ C9_StructurallyBad(Uploaded)) =>
          run.ended = "error_rerun"

\* the handler caught a parse failure while records were stored
C9_Witness ==
    /\ pc = "rerun" /\ run.ended = "error_rerun"
    /\ ~IsEmpty(run.prev)
    /\ widgets.uploaded_file = "broken.xml"

C10_PastGate == pc \in {"sidebar", "init_pd", "source", "display"}

\* C10: a run that finds 'authenticated' false gets no further than the
\* login page: it parses nothing, generates nothing, does not run the
\* engine and neither reads nor writes the stored record set;
\* 'authenticated' becomes true only in the login step, on a submit with
\* the configured username and password, and stays false on any other submit.
C10_LoginGate ==
    /\ [](C10_PastGate => Authenticated)
    /\ [][~Authenticated =>
            /\ heap' = heap
            /\ run'.ops = {}
            /\ ~C10_PastGate'
            /\ Authenticated' =>
                  /\ pc = "gate" /\ widgets.submit
                  /\ widgets.username = "manager" /\ widgets.password = "password123"
            /\ (pc = "gate" /\ widgets.submit
                /\ ~(widgets.username = "manager" /\ widgets.password = "password123")) =>
                  ~Authenticated']_vars

\* a login with a wrong password was refused after an earlier session had logged out
C10_Witness ==
    /\ pc = "idle" /\ run.login = "failed" /\ ~Authenticated
    /\ widgets.page = "login"
    /\ "parsed_data" \in session.keys

C11_ParsesWithoutRaising ==
    /\ pc = "source" /\ widgets.uploaded_file # ""
    /\ Uploaded.decodable
    /\ ParseUploaded(Uploaded).exc = ""

\* C11: when the upload handler runs on a file whose parse does not raise,
\* the stored record set after the handler is the parsed set if the parsed
\* set has at least one record and differs from the stored set, and is the
\* stored set as it was in every other case; in particular an upload with
\* zero valid records leaves the records loaded before in place.
C11_ReplacedIffNewData ==
    [][C11_ParsesWithoutRaising =>
          LET parsed == ParseUploaded(Uploaded).df
              stored == heap["stored"]
          IN  /\ (Len(parsed.rows) > 0 /\ parsed # stored) => heap'["stored"] = parsed
              /\ ~(Len(parsed.rows) > 0 /\ parsed # stored) => heap'["stored"] = stored
              /\ Len(parsed.rows) = 0 => heap'["stored"] = stored]_vars

\* a file with no valid record was uploaded while the records of an earlier
\* upload were stored, and the handler left them in place
C11_Witness ==
    /\ pc = "display" /\ "parse" \in run.ops
    /\ widgets.uploaded_file = "norecords.txt"
    /\ heap["stored"] = ParseUploaded(Files["good.txt"]).df
    /\ Len(heap["stored"].rows) = 1

\* the upload handler is about to process a selected file
C12_Processing == pc = "source" /\ widgets.uploaded_file # ""

\* a run has come to its end without requesting a rerun
C12_Settled == pc = "idle"

\* C12: whenever the upload handler processes a selected file, after
\* finitely many reruns a run ends without requesting another rerun (the
\* file stays selected meanwhile: only the user, between runs, changes it).
C12_UploadSettles == C12_Processing ~> C12_Settled

\* C12 for the files whose parse does not raise: the rerun requested after
\* a store finds the parsed set equal to the stored one, so its handler
\* stores nothing and requests no rerun.
C12_StoredThenEqual ==
    (pc = "rerun" /\ run.ended = "rerun" /\ "parse" \in run.ops) =>
        /\ widgets.uploaded_file # ""
        /\ ~IsNewData(ParseUploaded(Uploaded).df, heap["stored"])

\* the handler's error path always requests a rerun with the file still selected
C12_ErrorRerunsAgain ==
    [][(C12_Processing /\ Uploaded.decodable /\ ParseUploaded(Uploaded).exc # "") =>
          /\ pc' = "rerun"
          /\ widgets'.uploaded_file = widgets.uploaded_file]_vars

====
